---------------------------- MODULE Spec2Model ----------------------------
(***************************************************************************)
(* Model of the dogArm host software (jail487/dogArm-project).             *)
(*                                                                         *)
(* Part 1: RobotController (software/control/robot_controller.py), the     *)
(* serial command/response protocol state machine.  Text is modelled as    *)
(* TLA+ strings, taken apart character by character with Len, SubSeq and   *)
(* \o, so that strip(), split(), "in" and lower() are computed as Python   *)
(* computes them.                                                          *)
(***************************************************************************)
EXTENDS Integers, Sequences, FiniteSets, TLC

(***************************************************************************)
(* Bounds of the model.                                                    *)
(***************************************************************************)
\* Longest queue of unread response lines held by the serial input buffer.
MaxRx == 1
\* Most STATUS polls one move_to call is followed through.
MaxPolls == 2
\* How many times in a row a path is interpolated.
MaxPasses == 2

(***************************************************************************)
(* Python string operations                                                *)
(***************************************************************************)
Char(s, i) == SubSeq(s, i, i)

IsSpace(c) == c \in {" ", "\n", "\r", "\t"}

RECURSIVE LStrip(_)
LStrip(s) ==
  IF Len(s) > 0 /\ IsSpace(Char(s, 1)) THEN LStrip(SubSeq(s, 2, Len(s))) ELSE s

RECURSIVE RStrip(_)
RStrip(s) ==
  IF Len(s) > 0 /\ IsSpace(Char(s, Len(s)))
  THEN RStrip(SubSeq(s, 1, Len(s) - 1)) ELSE s

\* str.strip()
Strip(s) == RStrip(LStrip(s))

\* str.find(pat) + 1: the first position where pat occurs in s, 0 if none.
Find(s, pat) ==
  LET hits == {i \in 1..(Len(s) - Len(pat) + 1) :
                 SubSeq(s, i, i + Len(pat) - 1) = pat}
  IN IF hits = {} THEN 0 ELSE CHOOSE i \in hits : \A j \in hits : i <= j

\* pat in s
Contains(s, pat) == Find(s, pat) # 0

\* s.split(sep), a sequence of strings (sep is never empty here)
RECURSIVE Split(_, _)
Split(s, sep) ==
  LET i == Find(s, sep)
  IN IF i = 0 THEN <<s>>
     ELSE <<SubSeq(s, 1, i - 1)>> \o Split(SubSeq(s, i + Len(sep), Len(s)), sep)

LowerChar(c) ==
  CASE c = "A" -> "a" [] c = "B" -> "b" [] c = "C" -> "c" [] c = "D" -> "d"
    [] c = "E" -> "e" [] c = "F" -> "f" [] c = "G" -> "g" [] c = "H" -> "h"
    [] c = "I" -> "i" [] c = "J" -> "j" [] c = "K" -> "k" [] c = "L" -> "l"
    [] c = "M" -> "m" [] c = "N" -> "n" [] c = "O" -> "o" [] c = "P" -> "p"
    [] c = "Q" -> "q" [] c = "R" -> "r" [] c = "S" -> "s" [] c = "T" -> "t"
    [] c = "U" -> "u" [] c = "V" -> "v" [] c = "W" -> "w" [] c = "X" -> "x"
    [] c = "Y" -> "y" [] c = "Z" -> "z" [] OTHER -> c

\* str.lower()
RECURSIVE Lower(_)
Lower(s) ==
  IF Len(s) = 0 THEN s ELSE LowerChar(Char(s, 1)) \o Lower(SubSeq(s, 2, Len(s)))

(***************************************************************************)
(* Python values.  An Optional[str] is <<>> (None) or <<s>>.  A result is  *)
(* a record tagged by its Python type.                                     *)
(***************************************************************************)
None == <<>>
Some(s) == <<s>>

\* bool(response) for an Optional[str]: None and '' are falsy.
Truthy(response) == response # None /\ response[1] # ""

RNone == [t |-> "None"]
RBool(b) == [t |-> "bool", b |-> b]
RStr(s) == [t |-> "str", s |-> s]
RDict(d) == [t |-> "dict", d |-> d]
RTuple(c) == [t |-> "tuple", c |-> c]
RRaise(e) == [t |-> "raise", e |-> e]
RPending == [t |-> "pending"]

\* bool(result): what an `if not robot.home():` of a caller sees.
Falsy(r) ==
  \/ r.t = "None"
  \/ r.t = "bool" /\ ~r.b
  \/ r.t = "str" /\ r.s = ""
  \/ r.t = "dict" /\ DOMAIN r.d = {}
  \/ r.t = "tuple" /\ r.c = <<>>

(***************************************************************************)
(* get_status: parsing of a STATUS response                                *)
(***************************************************************************)
\* The loop of get_status over the items: later items overwrite earlier ones.
RECURSIVE StatusDict(_)
StatusDict(items) ==
  IF items = <<>> THEN <<>>
  ELSE LET n == Len(items)
           kv == Split(items[n], ":")
       IN (Lower(kv[1]) :> (kv[2] = "1")) @@ StatusDict(SubSeq(items, 1, n - 1))

\* `key, value = item.split(':')` raises ValueError unless there are two parts.
ParseStatus(response) ==
  IF Truthy(response) /\ Contains(response[1], "STATUS:")
  THEN LET status_str == Split(response[1], "STATUS:")[2]
           items == Split(status_str, ",")
       IN IF \E i \in 1..Len(items) : Len(Split(items[i], ":")) # 2
          THEN RRaise("ValueError")
          ELSE RDict(StatusDict(items))
  ELSE RNone

\* status.get('moving', False)
GetMoving(d) == IF "moving" \in DOMAIN d THEN d["moving"] ELSE FALSE

\* Variant of the exit test: any status that parses ends the wait.
AnyStatus(status) == status.t = "dict" /\ DOMAIN status.d # {}

\* `status and not status.get('moving', False)`, the exit test of the poll loop
NotMoving(status) ==
  status.t = "dict" /\ DOMAIN status.d # {} /\ ~GetMoving(status.d)

(***************************************************************************)
(* get_position: parsing of a POS response                                 *)
(***************************************************************************)
Digits == {"0", "1", "2", "3", "4", "5", "6", "7", "8", "9"}

DigitVal(c) ==
  CASE c = "0" -> 0 [] c = "1" -> 1 [] c = "2" -> 2 [] c = "3" -> 3
    [] c = "4" -> 4 [] c = "5" -> 5 [] c = "6" -> 6 [] c = "7" -> 7
    [] c = "8" -> 8 [] c = "9" -> 9

\* float(c) accepts (among forms no modelled line uses: exponents, inf, nan,
\* underscores) an optionally signed decimal with at most one point and at
\* least one digit, surrounded by white space; anything else is a ValueError.
Unsigned(s) ==
  IF Len(s) > 0 /\ Char(s, 1) \in {"+", "-"} THEN SubSeq(s, 2, Len(s)) ELSE s

IsFloat(c) ==
  LET u == Unsigned(Strip(c))
      points == {i \in 1..Len(u) : Char(u, i) = "."}
  IN /\ \A i \in 1..Len(u) : Char(u, i) \in Digits \cup {"."}
     /\ Cardinality(points) <= 1
     /\ \E i \in 1..Len(u) : Char(u, i) \in Digits

\* The value of float(c) in thousandths (every modelled line has at most
\* three decimals).
RECURSIVE DigitsVal(_)
DigitsVal(u) ==
  IF Len(u) = 0 THEN 0
  ELSE DigitsVal(SubSeq(u, 1, Len(u) - 1)) * 10 + DigitVal(Char(u, Len(u)))

Pow10(n) == CASE n = 0 -> 1 [] n = 1 -> 10 [] n = 2 -> 100 [] OTHER -> 1000

Float(c) ==
  LET t == Strip(c)
      u == Unsigned(t)
      p == Find(u, ".")
      whole == IF p = 0 THEN u ELSE SubSeq(u, 1, p - 1)
      frac == IF p = 0 THEN "" ELSE SubSeq(u, p + 1, Len(u))
      mag == DigitsVal(whole \o frac) * Pow10(3 - Len(frac))
  IN IF Len(t) > 0 /\ Char(t, 1) = "-" THEN 0 - mag ELSE mag

ParsePosition(response) ==
  IF Truthy(response) /\ Contains(response[1], "POS:")
  THEN LET pos_str == Split(response[1], "POS:")[2]
           fields == Split(pos_str, ",")
       IN IF \E i \in 1..Len(fields) : ~IsFloat(fields[i])
          THEN RRaise("ValueError")
          ELSE RTuple([i \in 1..Len(fields) |-> Float(fields[i])])
  ELSE RNone

(***************************************************************************)
(* Python floats.  The planner and the solver compute in IEEE-754 binary64 *)
(* with round-to-nearest-even after every operation.  A mantissa has 53     *)
(* bits, more than a TLC integer holds, so naturals are kept as sequences   *)
(* of limbs, least significant first, and a float as sign, odd mantissa     *)
(* and exponent.  Infinities, NaN, signed zero and subnormals are outside   *)
(* the model: no modelled input comes near the exponent limits.             *)
(***************************************************************************)
\* Bits of a binary64 mantissa.
Precision == 53

Base == 32768
BaseBits == 15

Pow2(k) ==
  CASE k = 0 -> 1 [] k = 1 -> 2 [] k = 2 -> 4 [] k = 3 -> 8 [] k = 4 -> 16
    [] k = 5 -> 32 [] k = 6 -> 64 [] k = 7 -> 128 [] k = 8 -> 256
    [] k = 9 -> 512 [] k = 10 -> 1024 [] k = 11 -> 2048 [] k = 12 -> 4096
    [] k = 13 -> 8192 [] k = 14 -> 16384 [] k = 15 -> 32768

Max(S) == CHOOSE i \in S : \A j \in S : j <= i
Min(S) == CHOOSE i \in S : \A j \in S : i <= j

\* The sequence that a function on 1..n is.
AsSeq(f) == f \o <<>>

\* Limb i of a, counted from the least significant; 0 past the end.
Limb(a, i) == IF i <= Len(a) THEN a[i] ELSE 0

\* a without its leading zero limbs
NTrim(a) == SubSeq(a, 1, Max({0} \cup {i \in 1..Len(a) : a[i] # 0}))

\* The limbs of an int n >= 0, and the int of at most three limbs.
NOf(n) == NTrim(<<n % Base, (n \div Base) % Base, n \div (Base * Base)>>)

NToInt(a) == Limb(a, 1) + Base * Limb(a, 2) + Base * Base * Limb(a, 3)

\* -1, 0 or 1 as a < b, a = b or a > b
NCmpAt(a, b, i) == IF a[i] < b[i] THEN -1 ELSE 1

NCmp(a, b) ==
  IF Len(a) # Len(b) THEN (IF Len(a) < Len(b) THEN -1 ELSE 1)
  ELSE IF a = b THEN 0
  ELSE NCmpAt(a, b, Max({i \in 1..Len(a) : a[i] # b[i]}))

\* The number of bits of a limb n.
BitLenSmall(n) ==
  CHOOSE k \in 0..BaseBits : n < Pow2(k) /\ (k = 0 \/ Pow2(k - 1) <= n)

\* a + b: limb i takes a carry when a limb below it overflows and every limb
\* in between is full.
CarryIn(a, b, i) ==
  \E j \in 1..(i - 1) :
    /\ Limb(a, j) + Limb(b, j) >= Base
    /\ \A k \in (j + 1)..(i - 1) : Limb(a, k) + Limb(b, k) = Base - 1

AddLimb(a, b, i) ==
  (Limb(a, i) + Limb(b, i) + (IF CarryIn(a, b, i) THEN 1 ELSE 0)) % Base

NAddTo(a, b, n) == NTrim(AsSeq([i \in 1..(n + 1) |-> AddLimb(a, b, i)]))

NAdd(a, b) == NAddTo(a, b, IF Len(a) > Len(b) THEN Len(a) ELSE Len(b))

\* a - b for a >= b: limb i lends when a limb below it is short and every
\* limb in between is level.
BorrowIn(a, b, i) ==
  \E j \in 1..(i - 1) :
    /\ a[j] < Limb(b, j)
    /\ \A k \in (j + 1)..(i - 1) : a[k] = Limb(b, k)

SubLimb(a, b, i) ==
  (a[i] - Limb(b, i) - (IF BorrowIn(a, b, i) THEN 1 ELSE 0) + Base) % Base

NSub(a, b) == NTrim(AsSeq([i \in 1..Len(a) |-> SubLimb(a, b, i)]))

\* a * k for 0 <= k <= Base: the low halves of the limb products plus their
\* high halves one limb up
Lows(a, k) == AsSeq([i \in 1..Len(a) |-> (a[i] * k) % Base])

Highs(a, k) ==
  AsSeq([i \in 1..(Len(a) + 1) |-> IF i = 1 THEN 0 ELSE (a[i - 1] * k) \div Base])

NMulSmall(a, k) ==
  IF k = 0 \/ a = <<>> THEN <<>>
  ELSE IF k = 1 THEN a
  ELSE NAdd(Lows(a, k), Highs(a, k))

Zeros(n) == AsSeq([i \in 1..n |-> 0])

\* a times the limbs lo..hi of b, each in its place
RECURSIVE NMulRange(_, _, _, _)
NMulRange(a, b, lo, hi) ==
  IF lo = hi THEN Zeros(lo - 1) \o NMulSmall(a, b[lo])
  ELSE NAdd(NMulRange(a, b, lo, (lo + hi) \div 2),
            NMulRange(a, b, (lo + hi) \div 2 + 1, hi))

NMul(a, b) ==
  IF a = <<>> \/ b = <<>> THEN <<>> ELSE NTrim(NMulRange(a, b, 1, Len(b)))

\* a * 2^k
NShl(a, k) ==
  IF a = <<>> THEN <<>>
  ELSE Zeros(k \div BaseBits) \o NMulSmall(a, Pow2(k % BaseBits))

\* floor(a / 2^k): limb i is made of limb i + drop from bit r up and of the
\* r low bits of the limb above it
ShrLimb(a, drop, r, i) ==
  Limb(a, i + drop) \div Pow2(r)
    + (Limb(a, i + drop + 1) % Pow2(r)) * Pow2(BaseBits - r)

NShr(a, k) ==
  IF k = 0 THEN a
  ELSE NTrim(AsSeq([i \in 1..(Len(a) - k \div BaseBits) |->
                      ShrLimb(a, k \div BaseBits, k % BaseBits, i)]))

NBitLen(a) ==
  IF a = <<>> THEN 0 ELSE BaseBits * (Len(a) - 1) + BitLenSmall(a[Len(a)])

NIsOdd(a) == a # <<>> /\ a[1] % 2 = 1

\* floor(t / b) for t < b * Base, where the top limb of b is at least
\* Base / 2: the estimate from the leading limbs is at most two too large.
Corrected(t, b, q) ==
  IF NCmp(NMulSmall(b, q), t) <= 0 THEN q
  ELSE IF NCmp(NMulSmall(b, q - 1), t) <= 0 THEN q - 1
  ELSE q - 2

Capped(est) == IF est > Base - 1 THEN Base - 1 ELSE est

QuotientLimb(t, b) ==
  Corrected(t, b,
            Capped((Limb(t, Len(b) + 1) * Base + Limb(t, Len(b))) \div b[Len(b)]))

\* One step of long division: h is <<the limbs of the quotient found so
\* far, the remainder so far>>, t that remainder with limb i of a brought
\* down, d the limb of the quotient it gives.
NDivModDigit(b, h, t, d) == <<<<d>> \o h[1], NSub(t, NMulSmall(b, d))>>

NDivModLimb(b, h, t) == NDivModDigit(b, h, t, QuotientLimb(t, b))

NDivModStep(a, b, i, h) == NDivModLimb(b, h, NTrim(<<a[i]>> \o h[2]))

\* Long division until the quotient has n limbs
RECURSIVE NDivModFrom(_, _, _, _)
NDivModFrom(a, b, n, h) ==
  IF Len(h[1]) = n THEN <<NTrim(h[1]), h[2]>>
  ELSE NDivModFrom(a, b, n, NDivModStep(a, b, n - Len(h[1]), h))

\* <<floor(a / b), a mod b>> for b > 0 whose top limb is at least Base / 2:
\* the limbs of a above the lowest Len(a) - Len(b) + 1 are below b
NDivModNormal(a, b) ==
  IF Len(a) < Len(b) THEN <<<<>>, a>>
  ELSE NDivModFrom(a, b, Len(a) - Len(b) + 1,
                   <<<<>>, SubSeq(a, Len(a) - Len(b) + 2, Len(a))>>)

\* <<floor(a / b), a mod b>> for b > 0, with both scaled by 2^sh so that the
\* top limb of the divisor is at least Base / 2
Unscaled(h, sh) == <<h[1], NShr(h[2], sh)>>

NDivModBy(a, b, sh) == Unscaled(NDivModNormal(NShl(a, sh), NShl(b, sh)), sh)

NDivMod(a, b) == NDivModBy(a, b, BaseBits - BitLenSmall(b[Len(b)]))

\* Newton's iteration down from an x >= sqrt(a), where q is floor(a / x):
\* the next x, floor((x + q) / 2), is below x exactly if q is.
RECURSIVE NSqrtFrom(_, _)
NSqrtNext(a, x, q) ==
  IF NCmp(q, x) >= 0 THEN x ELSE NSqrtFrom(a, NShr(NAdd(x, q), 1))

NSqrtFrom(a, x) == NSqrtNext(a, x, NDivMod(a, x)[1])

\* floor(sqrt(n)) for an int n below 2^30: first to a multiple of 256
SqrtIn(n, lo) == CHOOSE r \in lo..(lo + 255) : r * r <= n /\ n < (r + 1) * (r + 1)

SqrtSmall(n) ==
  SqrtIn(n, 256 * (CHOOSE h \in 0..127 :
                     (256 * h) * (256 * h) <= n /\ n < (256 * h + 256) * (256 * h + 256)))

\* floor(sqrt(a)): Newton's iteration from the root of the leading 30 bits
NSqrtShifted(a, sh) ==
  NSqrtFrom(a, NShl(NOf(SqrtSmall(NToInt(NShr(a, sh))) + 1), sh \div 2))

NSqrt(a) ==
  IF NBitLen(a) <= 30 THEN NOf(SqrtSmall(NToInt(a)))
  ELSE NSqrtShifted(a, NBitLen(a) - 30 + ((NBitLen(a) - 30) % 2))

\* A dyadic number (-1)^s * m * 2^e with m odd, or zero as below.  A float is
\* a dyadic number whose m has at most 53 bits.
FZero == [s |-> 0, m |-> <<>>, e |-> 0]

\* The number of trailing zero bits of a limb n > 0, and of a > 0.
TrailingSmall(n) ==
  CHOOSE k \in 0..(BaseBits - 1) : n % Pow2(k) = 0 /\ n % Pow2(k + 1) # 0

NTrailingAt(a, i) == BaseBits * (i - 1) + TrailingSmall(a[i])

NTrailing(a) == NTrailingAt(a, Min({i \in 1..Len(a) : a[i] # 0}))

\* The dyadic number (-1)^s * m * 2^e, for any m.
DyadicBy(s, m, e, z) == [s |-> s, m |-> NShr(m, z), e |-> e + z]

Dyadic(s, m, e) ==
  IF m = <<>> THEN FZero ELSE DyadicBy(s, m, e, NTrailing(m))

\* The mantissas of a and b over their smaller exponent.
AlignedAt(a, b, e) ==
  [e |-> e, ma |-> NShl(a.m, a.e - e), mb |-> NShl(b.m, b.e - e)]

Aligned(a, b) == AlignedAt(a, b, IF a.e < b.e THEN a.e ELSE b.e)

\* -1, 0 or 1 as a < b, a = b or a > b
Signed(s, c) == IF s = 1 THEN 0 - c ELSE c

Magnitudes(al) == NCmp(al.ma, al.mb)

FCmp(a, b) ==
  IF a.s # b.s THEN (IF a.s = 1 THEN -1 ELSE 1)
  ELSE Signed(a.s, Magnitudes(Aligned(a, b)))

FNeg(a) == IF a.m = <<>> THEN a ELSE [a EXCEPT !.s = 1 - a.s]

FAbs(a) == [a EXCEPT !.s = 0]

\* a + b and a * b as real numbers, without rounding
SumAligned(a, b, al) ==
  IF a.s = b.s THEN Dyadic(a.s, NAdd(al.ma, al.mb), al.e)
  ELSE IF NCmp(al.ma, al.mb) >= 0
  THEN Dyadic(a.s, NSub(al.ma, al.mb), al.e)
  ELSE Dyadic(b.s, NSub(al.mb, al.ma), al.e)

Sum(a, b) == SumAligned(a, b, Aligned(a, b))

Product(a, b) == Dyadic((a.s + b.s) % 2, NMul(a.m, b.m), a.e + b.e)

\* Round-to-nearest-even of (-1)^s * (m + f) * 2^e to a float, where
\* 0 <= f < 1 and f > 0 exactly if sticky; m has 55 bits or more when sticky.
\* q is m without its k low bits, c compares those bits with a half.
RoundsUp(q, c, sticky) == c > 0 \/ (c = 0 /\ (sticky \/ NIsOdd(q)))

FRoundTo(s, q, e, c, sticky) ==
  Dyadic(s, IF RoundsUp(q, c, sticky) THEN NAdd(q, <<1>>) ELSE q, e)

FRoundOff(s, m, e, sticky, k, q) ==
  FRoundTo(s, q, e + k, NCmp(NSub(m, NShl(q, k)), NShl(<<1>>, k - 1)), sticky)

FRoundBy(s, m, e, sticky, k) == FRoundOff(s, m, e, sticky, k, NShr(m, k))

FRound(s, m, e, sticky) ==
  IF NBitLen(m) <= Precision THEN Dyadic(s, m, e)
  ELSE FRoundBy(s, m, e, sticky, NBitLen(m) - Precision)

Rounded(d) == FRound(d.s, d.m, d.e, FALSE)

\* float(n) for an int n
FOfInt(n) == IF n < 0 THEN Dyadic(1, NOf(0 - n), 0) ELSE Dyadic(0, NOf(n), 0)

\* a + b, a - b, a * b in Python
FAdd(a, b) == Rounded(Sum(a, b))

FSub(a, b) == FAdd(a, FNeg(b))

FMul(a, b) == Rounded(Product(a, b))

\* a / b for b # 0: the quotient is taken to 55 bits or more, from a scaled
\* by 2^k
FDivOf(a, b, k, qr) ==
  FRound((a.s + b.s) % 2, qr[1], a.e - b.e - k, qr[2] # <<>>)

FDivBy(a, b, k) == FDivOf(a, b, k, NDivMod(NShl(a.m, k), b.m))

FDiv(a, b) ==
  IF a.m = <<>> THEN FZero
  ELSE FDivBy(a, b, Max({0, Precision + 2 + NBitLen(b.m) - NBitLen(a.m)}))

\* np.sqrt(a) for a >= 0: the root r is taken to 55 bits or more, from
\* x = a scaled by 2^k, where k leaves an even exponent
FSqrtOf(a, k, x, r) == FRound(0, r, (a.e - k) \div 2, NMul(r, r) # x)

FSqrtFrom(a, k, x) == FSqrtOf(a, k, x, NSqrt(x))

FSqrtBy(a, need) ==
  FSqrtFrom(a, need + ((a.e - need) % 2),
            NShl(a.m, need + ((a.e - need) % 2)))

FSqrt(a) ==
  IF a.m = <<>> THEN FZero
  ELSE FSqrtBy(a, 2 * Precision + 4 - NBitLen(a.m))

\* int(np.floor(a)) and int(np.ceil(a)) for a >= 0 below 2^30
FFloorInt(a) ==
  IF a.e >= 0 THEN NToInt(NShl(a.m, a.e)) ELSE NToInt(NShr(a.m, 0 - a.e))

FCeilInt(a) == IF a.e >= 0 THEN FFloorInt(a) ELSE FFloorInt(a) + 1

(***************************************************************************)
(* CalligraphyPlanner (calligraphy/path_planner.py)                        *)
(***************************************************************************)
RList(v) == [t |-> "list", v |-> v]

PathPoint(x, y, pen_down) == [x |-> x, y |-> y, pen_down |-> pen_down]

\* runs[lo] \o ... \o runs[hi], as the appends of a loop leave them
RECURSIVE Concat(_, _, _)
Concat(runs, lo, hi) ==
  IF lo > hi THEN <<>>
  ELSE IF lo = hi THEN runs[lo]
  ELSE LET mid == (lo + hi) \div 2
       IN Concat(runs, lo, mid) \o Concat(runs, mid + 1, hi)

\* The runs one after the other.
Flat(runs) == Concat(runs, 1, Len(runs))

\* x * scale + offset_x
Scaled(x, scale, offset) == FAdd(FMul(x, scale), offset)

\* Variant of the loop body of plan_path: no pen-up point ends the stroke.
StrokePointsNoLeadOut(stroke, scale, offset_x, offset_y) ==
  IF Len(stroke) = 0 THEN <<>>
  ELSE LET P(i, pen) == PathPoint(Scaled(stroke[i][1], scale, offset_x),
                                  Scaled(stroke[i][2], scale, offset_y), pen)
       IN <<P(1, FALSE)>> \o [i \in 1..Len(stroke) |-> P(i, TRUE)]

\* What one turn of plan_path's loop appends for a stroke: nothing for an
\* empty one; else the pen-up point at the first vertex, a pen-down point for
\* every vertex, and a pen-up point at the scaled_x, scaled_y the inner loop
\* left behind, those of the last vertex.
StrokePoints(stroke, scale, offset_x, offset_y) ==
  IF Len(stroke) = 0 THEN <<>>
  ELSE LET P(i, pen) == PathPoint(Scaled(stroke[i][1], scale, offset_x),
                                  Scaled(stroke[i][2], scale, offset_y), pen)
       IN <<P(1, FALSE)>> \o [i \in 1..Len(stroke) |-> P(i, TRUE)]
            \o <<P(Len(stroke), FALSE)>>

plan_path(strokes, scale, offset_x, offset_y) ==
  Flat(AsSeq([k \in 1..Len(strokes) |->
                StrokePoints(strokes[k], scale, offset_x, offset_y)]))

\* A vertex (x, y) written with ints, as the stroke tables are.
V(x, y) == <<FOfInt(x), FOfInt(y)>>

\* The characters of create_simple_character, by code point: U+4E00 is the
\* horizontal line, U+5341 the cross, U+6728 the tree.
Strokes(character) ==
  CASE character = "U+4E00" -> <<<<V(50, 100), V(150, 100)>>>>
    [] character = "U+5341" -> <<<<V(100, 50), V(100, 150)>>,
                                 <<V(50, 100), V(150, 100)>>>>
    [] character = "U+6728" -> <<<<V(100, 50), V(100, 150)>>,
                                 <<V(50, 100), V(150, 100)>>,
                                 <<V(60, 120), V(90, 150)>>,
                                 <<V(140, 120), V(110, 150)>>>>

Implemented == {"U+4E00", "U+5341", "U+6728"}

\* The defaults of plan_path's offset_x and offset_y.
DefaultOffsetX == FOfInt(0)
DefaultOffsetY == FOfInt(200)

create_simple_character(character) ==
  IF character \in Implemented
  THEN plan_path(Strokes(character), FOfInt(1), DefaultOffsetX, DefaultOffsetY)
  ELSE <<>>

\* Variant of num_steps: the quotient is rounded down.
num_stepsFloor(distance, step_size) == FFloorInt(FDiv(distance, step_size))

\* int(np.ceil(distance / step_size))
num_steps(distance, step_size) == FCeilInt(FDiv(distance, step_size))

\* np.sqrt(dx**2 + dy**2)
Distance(dx, dy) == FSqrt(FAdd(FMul(dx, dx), FMul(dy, dy)))

\* The point at fraction t of the way from `current` along (dx, dy).
Step(current, dx, dy, t) ==
  PathPoint(FAdd(current.x, FMul(t, dx)), FAdd(current.y, FMul(t, dy)), TRUE)

\* for j in range(1, num_steps): the point at t = j / num_steps
Steps(current, dx, dy, n) ==
  [j \in 1..(n - 1) |-> Step(current, dx, dy, FDiv(FOfInt(j), FOfInt(n)))]

\* if distance > step_size: the points to insert, else none
Stepped(current, dx, dy, distance, step_size) ==
  IF FCmp(distance, step_size) > 0
  THEN Steps(current, dx, dy, num_steps(distance, step_size))
  ELSE <<>>

\* The points one turn of interpolate_path's loop appends after `current`.
Between(current, next_point, step_size) ==
  IF current.pen_down /\ next_point.pen_down
  THEN Stepped(current,
               FSub(next_point.x, current.x), FSub(next_point.y, current.y),
               Distance(FSub(next_point.x, current.x), FSub(next_point.y, current.y)),
               step_size)
  ELSE <<>>

\* interpolate_path(path, step_size): path[-1] of an empty list raises.
interpolate_path(path, step_size) ==
  IF Len(path) = 0 THEN RRaise("IndexError")
  ELSE RList(Flat(AsSeq([i \in 1..(Len(path) - 1) |->
                           <<path[i]>> \o Between(path[i], path[i + 1], step_size)]))
             \o <<path[Len(path)]>>)

(***************************************************************************)
(* InverseKinematics (kinematics/inverse_kinematics.py).  The operators    *)
(* read l1 and l2 from the solver they are called on.                      *)
(***************************************************************************)
\* The workspace limits __init__ sets, in mm.
min_x == FOfInt(-300)
max_x == FOfInt(300)
min_y == FOfInt(50)
max_y == FOfInt(400)

\* The default link lengths of __init__, in mm.
DefaultLink == FOfInt(200)

max_reach(k) == FAdd(k.l1, k.l2)
min_reach(k) == FAbs(FSub(k.l1, k.l2))

\* The closing test of is_reachable: min_reach <= distance <= max_reach.
InReach(k, distance) ==
  FCmp(min_reach(k), distance) <= 0 /\ FCmp(distance, max_reach(k)) <= 0

\* Variant of is_reachable: the workspace rectangle is not looked at.
is_reachableAnywhere(k, x, y) == InReach(k, Distance(x, y))

\* is_reachable(x, y) of solver k
is_reachable(k, x, y) ==
  IF FCmp(x, min_x) < 0 \/ FCmp(x, max_x) > 0 THEN FALSE
  ELSE IF FCmp(y, min_y) < 0 \/ FCmp(y, max_y) > 0 THEN FALSE
  ELSE InReach(k, Distance(x, y))

\* The tuple (theta1, theta2) solve returns.  Both angles are taken from
\* cos_elbow, x and y through arccos, arctan2 and arcsin, which are left
\* uninterpreted: the tuple is kept as the cos_elbow it was computed from.
RAngles(cos_elbow) == [t |-> "tuple", cos_elbow |-> cos_elbow]

\* The law of cosines of solve, for a target at the given distance.
cos_elbow(k, distance) ==
  FDiv(FSub(FAdd(FMul(k.l1, k.l1), FMul(k.l2, k.l2)), FMul(distance, distance)),
       FMul(FMul(FOfInt(2), k.l1), k.l2))

\* solve from its validity check on: None unless -1 <= cos_elbow <= 1.
Angles(c) ==
  IF FCmp(c, FOfInt(-1)) < 0 \/ FCmp(c, FOfInt(1)) > 0 THEN RNone ELSE RAngles(c)

\* solve from its own distance check on.
Elbow(k, distance) ==
  IF FCmp(distance, max_reach(k)) > 0 \/ FCmp(distance, min_reach(k)) < 0 THEN RNone
  ELSE Angles(cos_elbow(k, distance))

\* solve(x, y) of solver k
solve(k, x, y) ==
  IF ~is_reachable(k, x, y) THEN RNone ELSE Elbow(k, Distance(x, y))

(***************************************************************************)
(* RobotController: state                                                  *)
(***************************************************************************)
VARIABLES
  serial,        \* self.serial: "None", or the handle it holds: "open", "closed"
  handles,       \* how many ports opened by the controller are open now
  is_connected,  \* self.is_connected
  is_homed,      \* self.is_homed
  pc,            \* "idle": no call in progress; "polling": move_to is in its loop
  rx,            \* response lines the device has sent and nobody has read yet
  op,            \* the public operation called last (in progress while polling)
  pre,           \* is_connected, is_homed and serial when that call began
  result,        \* what that call returned or raised, RPending while it runs
  io,            \* the transport calls that call has made so far, in order
  scope,         \* the with-statement: "none", "body", or how it was left
  acked_home,    \* a HOME has been acknowledged OK since the port was last opened
  late_line,     \* the device answered the last command, and the line read for
                 \* it was one sent before its frame was written
  current_path,  \* CalligraphyPlanner.current_path
  solver,        \* the InverseKinematics object: its l1 and l2
  call           \* the planner or solver call made last, with its outcome

\* The controller with the wire's history, and the planner with the solver.
robot ==
  <<serial, handles, is_connected, is_homed, pc, rx, op, pre, result, io, scope,
    acked_home, late_line>>

calc == <<current_path, solver, call>>

vars == <<robot, calc>>

\* The port the controller was constructed with.
Port == "/dev/ttyUSB0"

\* Arguments the callers pass (examples/basic_control.py, write_character.py).
Targets == {<<100, 200, 10>>, <<125, 225, 5>>}
Speeds == {500}

(***************************************************************************)
(* The firmware's side of the wire.  Each line is one the device may send  *)
(* in answer to a command; it may also stay silent, or answer late.        *)
(***************************************************************************)
AckReplies == {"OK\r\n", "ERROR\n"}
StatusReplies ==
  {"STATUS:moving:1,homed:1\n", "STATUS:MOVING:0,homed:1\r\n",
   "STATUS:homed:1\n", "STATUS:moving\n"}
PosReplies == {"POS:100.0,200.0,10.0\n", "POS:1.5,2\n", "POS:a,b,c\n"}

Reply(command) ==
  IF command = "STATUS" THEN StatusReplies
  ELSE IF command = "POS" THEN PosReplies
  ELSE AckReplies

Ev(k, v) == [k |-> k, v |-> v]

\* (command + '\n').encode()
Frame(command) == command \o "\n"

\* Input buffers the read can find after the frame went out: the device
\* stays silent, or its answer joins the lines still unread.
Arrivals(command) == {rx} \cup {Append(rx, r) : r \in Reply(command)}

\* self.serial.readline().decode().strip() on input buffer q: the head line,
\* or b'' when the timeout expires first, or an exception.  No more than
\* MaxRx lines are left unread: to a buffer that full a line is added only
\* when the read takes one out.
ReadLine(q) ==
  (IF Len(q) <= MaxRx
   THEN {[resp |-> Some(Strip("")), rx |-> q, ev |-> <<Ev("read", "")>>],
         [resp |-> None, rx |-> q, ev |-> <<Ev("raise", "readline")>>]}
   ELSE {})
  \cup (IF q # <<>>
        THEN {[resp |-> Some(Strip(Head(q))), rx |-> Tail(q),
               ev |-> <<Ev("read", Head(q))>>]}
        ELSE {})

\* Variant of send_command: after a timed-out read the frame is written and
\* the line awaited once more before the caller hears of it.
SendCommandRetry(command) ==
  IF ~is_connected
  THEN {[resp |-> None, rx |-> rx, ev |-> <<>>]}
  ELSE LET wr == Ev("write", Frame(command))
           first == UNION {ReadLine(q) : q \in Arrivals(command)}
       IN {[resp |-> None, rx |-> rx, ev |-> <<wr, Ev("raise", "write")>>]}
          \cup {[resp |-> r.resp, rx |-> r.rx, ev |-> <<wr>> \o r.ev] :
                  r \in {f \in first : f.ev # <<Ev("read", "")>>}}
          \cup UNION {{[resp |-> r.resp, rx |-> r.rx,
                        ev |-> <<wr>> \o f.ev \o <<wr>> \o r.ev] :
                         r \in ReadLine(f.rx)} :
                       f \in {f \in first : f.ev = <<Ev("read", "")>>}}

\* send_command(command): the set of its outcomes in the current state, each
\* the returned Optional[str], the input buffer left and the transport calls.
SendCommand(command) ==
  IF ~is_connected
  THEN {[resp |-> None, rx |-> rx, ev |-> <<>>]}
  ELSE LET wr == Ev("write", Frame(command))
       IN {[resp |-> None, rx |-> rx, ev |-> <<wr, Ev("raise", "write")>>]}
          \cup {[resp |-> r.resp, rx |-> r.rx, ev |-> <<wr>> \o r.ev] :
                  r \in UNION {ReadLine(q) : q \in Arrivals(command)}}

\* Variants of Acked: any non-empty line, or any line at all, counts as OK.
AckedAnyLine(response) == Truthy(response)

AckedNotNone(response) == response # None

\* `response and "OK" in response` as a condition
Acked(response) == Truthy(response) /\ Contains(response[1], "OK")

\* `return response and "OK" in response`
AndOK(response) ==
  IF response = None THEN RNone
  ELSE IF response[1] = "" THEN RStr("")
  ELSE RBool(Contains(response[1], "OK"))

Snapshot == [c |-> is_connected, h |-> is_homed, s |-> serial]

TypeOK ==
  /\ serial \in {"None", "open", "closed"}
  /\ handles \in 0..1
  /\ is_connected \in BOOLEAN /\ is_homed \in BOOLEAN
  /\ pc \in {"idle", "polling"}
  /\ Len(rx) <= MaxRx
  /\ scope \in {"none", "body", "normal", "return", "exception"}
  /\ acked_home \in BOOLEAN /\ late_line \in BOOLEAN

(***************************************************************************)
(* RobotController: operations                                             *)
(***************************************************************************)
Init ==
  /\ serial = "None"
  /\ handles = 0
  /\ is_connected = FALSE
  /\ is_homed = FALSE
  /\ pc = "idle"
  /\ rx = <<>>
  /\ op = "__init__"
  /\ pre = [c |-> FALSE, h |-> FALSE, s |-> "None"]
  /\ result = RNone
  /\ io = <<>>
  /\ scope = "none"
  /\ acked_home = FALSE
  /\ late_line = FALSE
  /\ current_path = <<>>
  /\ solver = [l1 |-> DefaultLink, l2 |-> DefaultLink]
  /\ call = [fn |-> "__init__"]

\* serial.Serial(...) either returns an open port or raises SerialException.
OpenOutcomes == {"ok", "SerialException"}

\* Ports left open once self.serial is rebound to a newly opened one: the
\* port held before loses its last reference there, and its finalizer
\* (Serial.__del__) closes it if it was still open.
AfterRebind == (IF serial = "open" THEN handles - 1 ELSE handles) + 1

\* Variant of connect(): is_connected is set before the port is opened.
connectEager(o) ==
  /\ io' = <<Ev(IF o = "ok" THEN "open" ELSE "openfail", Port)>>
  /\ is_connected' = TRUE
  /\ IF o = "ok"
     THEN serial' = "open" /\ handles' = AfterRebind /\ rx' \in {rx, <<>>}
     ELSE UNCHANGED <<serial, handles, rx>>
  /\ UNCHANGED is_homed

\* The body of connect().  Lines unread in the operating system's buffer may
\* or may not survive the reopening.
connect(o) ==
  /\ io' = <<Ev(IF o = "ok" THEN "open" ELSE "openfail", Port)>>
  /\ IF o = "ok"
     THEN /\ serial' = "open"
          /\ handles' = AfterRebind
          /\ is_connected' = TRUE
          /\ rx' \in {rx, <<>>}
     ELSE UNCHANGED <<serial, handles, is_connected, rx>>
  /\ UNCHANGED is_homed

Connect ==
  /\ pc = "idle"
  /\ \E o \in OpenOutcomes :
       /\ connect(o)
       /\ result' = RBool(o = "ok")
  /\ op' = "connect"
  /\ pre' = Snapshot
  /\ UNCHANGED <<pc, scope>>

\* The body of disconnect().
disconnect ==
  /\ IF serial = "open"
     THEN /\ serial' = "closed"
          /\ handles' = handles - 1
          /\ is_connected' = FALSE
          /\ io' = <<Ev("close", Port)>>
     ELSE /\ UNCHANGED <<serial, handles, is_connected>>
          /\ io' = <<>>
  /\ UNCHANGED <<is_homed, rx>>

Disconnect ==
  /\ pc = "idle"
  /\ disconnect
  /\ op' = "disconnect"
  /\ pre' = Snapshot
  /\ result' = RNone
  /\ UNCHANGED <<pc, scope>>

\* A call that is one command exchange: rx and io follow the exchange x.
Exchange(name, x) ==
  /\ pc = "idle"
  /\ rx' = x.rx
  /\ io' = x.ev
  /\ op' = name
  /\ pre' = Snapshot
  /\ UNCHANGED <<serial, handles, is_connected, pc, scope>>

Home ==
  \E x \in SendCommand("HOME") :
    /\ Exchange("home", x)
    /\ is_homed' = (IF Acked(x.resp) THEN TRUE ELSE is_homed)
    /\ result' = RBool(Acked(x.resp))

PenUp ==
  \E x \in SendCommand("PEN:UP") :
    /\ Exchange("pen_up", x)
    /\ result' = AndOK(x.resp)
    /\ UNCHANGED is_homed

PenDown ==
  \E x \in SendCommand("PEN:DOWN") :
    /\ Exchange("pen_down", x)
    /\ result' = AndOK(x.resp)
    /\ UNCHANGED is_homed

SetSpeed ==
  \E speed \in Speeds :
    \E x \in SendCommand("SPEED:" \o ToString(speed)) :
      /\ Exchange("set_speed", x)
      /\ result' = AndOK(x.resp)
      /\ UNCHANGED is_homed

GetStatus ==
  \E x \in SendCommand("STATUS") :
    /\ Exchange("get_status", x)
    /\ result' = ParseStatus(x.resp)
    /\ UNCHANGED is_homed

GetPosition ==
  \E x \in SendCommand("POS") :
    /\ Exchange("get_position", x)
    /\ result' = ParsePosition(x.resp)
    /\ UNCHANGED is_homed

\* Variant of emergency_stop: it stops only a robot that has been homed.
EmergencyStopIfHomed ==
  \E x \in (IF is_homed THEN SendCommand("STOP")
            ELSE {[resp |-> None, rx |-> rx, ev |-> <<>>]}) :
    /\ Exchange("emergency_stop", x)
    /\ result' = RNone
    /\ UNCHANGED is_homed

EmergencyStop ==
  \E x \in SendCommand("STOP") :
    /\ Exchange("emergency_stop", x)
    /\ result' = RNone
    /\ UNCHANGED is_homed

\* f"MOVE:{x},{y},{z}" (the callers modelled pass integers)
MoveCommand(t) ==
  "MOVE:" \o ToString(t[1]) \o "," \o ToString(t[2]) \o "," \o ToString(t[3])

\* Variant of move_to's guard: it asks for a connection, not for homing.
MoveRefusedUnlessConnected == ~is_connected

\* `if not self.is_homed: return False`
MoveRefused == ~is_homed

\* move_to up to its loop: the refusal, or the MOVE exchange and its verdict.
MoveTo ==
  /\ pc = "idle"
  /\ op' = "move_to"
  /\ pre' = Snapshot
  /\ UNCHANGED <<serial, handles, is_connected, is_homed, scope>>
  /\ IF MoveRefused
     THEN /\ result' = RBool(FALSE)
          /\ io' = <<>>
          /\ UNCHANGED <<rx, pc>>
     ELSE \E t \in Targets :
            \E x \in SendCommand(MoveCommand(t)) :
              /\ rx' = x.rx
              /\ io' = x.ev
              /\ IF Acked(x.resp)
                 THEN pc' = "polling" /\ result' = RPending
                 ELSE pc' = "idle" /\ result' = RBool(FALSE)

\* The STATUS polls a call has written so far.
NumPolls(log) ==
  Cardinality({i \in 1..Len(log) : log[i] = Ev("write", Frame("STATUS"))})

\* One turn of move_to's `while True`: get_status(), then break and return
\* True, or sleep and go round again.  A ValueError of get_status leaves
\* move_to.
Poll ==
  /\ pc = "polling"
  /\ NumPolls(io) < MaxPolls
  /\ \E x \in SendCommand("STATUS") :
       LET status == ParseStatus(x.resp)
       IN /\ rx' = x.rx
          /\ io' = io \o x.ev
          /\ IF status.t = "raise"
             THEN pc' = "idle" /\ result' = status
             ELSE IF NotMoving(status)
             THEN pc' = "idle" /\ result' = RBool(TRUE)
             ELSE pc' = "polling" /\ result' = RPending
  /\ UNCHANGED <<serial, handles, is_connected, is_homed, op, pre, scope>>

\* with RobotController(port) as robot: __enter__ calls connect() and does
\* not look at what it returns.
Enter ==
  /\ pc = "idle"
  /\ scope # "body"
  /\ \E o \in OpenOutcomes : connect(o)
  /\ op' = "__enter__"
  /\ pre' = Snapshot
  /\ result' = RNone
  /\ scope' = "body"
  /\ UNCHANGED pc

\* The ways the body of the with-statement is left.
ExitKinds == {"normal", "return", "exception"}

\* Variant of __exit__: it disconnects only when no exception is passing.
ExitDisconnectsUnlessRaised(how) == how # "exception"

\* __exit__ runs however the body is left, and calls disconnect().
ExitDisconnects(how) == TRUE

\* Leaving the with-statement: at the end of the body, by the `return` after
\* a failed home() or move_to(), or by an exception raised in the body.
Exit(how) ==
  /\ pc = "idle"
  /\ scope = "body"
  /\ how = "return" => op \in {"home", "move_to"} /\ Falsy(result)
  /\ IF ExitDisconnects(how)
     THEN disconnect
     ELSE io' = <<>> /\ UNCHANGED <<serial, handles, is_connected, is_homed, rx>>
  /\ op' = "__exit__"
  /\ pre' = Snapshot
  /\ result' = RNone
  /\ scope' = how
  /\ UNCHANGED pc

LeaveScope == \E how \in ExitKinds : Exit(how)

\* The transport calls of the step being taken: a turn of the poll loop adds
\* to the log of its move_to, every other call starts its own.
NewEvents == IF pc = "polling" THEN SubSeq(io', Len(io) + 1, Len(io')) ELSE io'

\* What a step leaves on record about the wire.  Opening the port starts a
\* connection on which no HOME has been acknowledged yet.  A line read is late
\* if lines were waiting when the frame went out: the read takes the oldest,
\* and the buffer is as long after the step as before it exactly if the device
\* answered this frame too.
Wire ==
  /\ acked_home' =
       (IF \E i \in 1..Len(NewEvents) : NewEvents[i].k = "open" THEN FALSE
        ELSE IF op' = "home" /\ result' = RBool(TRUE) THEN TRUE
        ELSE acked_home)
  /\ late_line' =
       (/\ NewEvents # <<>>
        /\ NewEvents[Len(NewEvents)].k = "read"
        /\ NewEvents[Len(NewEvents)].v # ""
        /\ rx # <<>>
        /\ Len(rx') = Len(rx))

Next ==
  \/ Connect /\ Wire /\ UNCHANGED calc
  \/ Disconnect /\ Wire /\ UNCHANGED calc
  \/ Home /\ Wire /\ UNCHANGED calc
  \/ MoveTo /\ Wire /\ UNCHANGED calc
  \/ Poll /\ Wire /\ UNCHANGED calc
  \/ PenUp /\ Wire /\ UNCHANGED calc
  \/ PenDown /\ Wire /\ UNCHANGED calc
  \/ SetSpeed /\ Wire /\ UNCHANGED calc
  \/ GetStatus /\ Wire /\ UNCHANGED calc
  \/ GetPosition /\ Wire /\ UNCHANGED calc
  \/ EmergencyStop /\ Wire /\ UNCHANGED calc
  \/ Enter /\ Wire /\ UNCHANGED calc
  \/ LeaveScope /\ Wire /\ UNCHANGED calc

Spec == Init /\ [][Next]_vars

(***************************************************************************)
(* CalligraphyPlanner and InverseKinematics: calls.  The functions are     *)
(* pure but for current_path, which nothing reads back, so a call reaches  *)
(* the same state whatever calls came before it: each run makes one call   *)
(* on a new object, and then interpolates what it got, as write_character  *)
(* does.                                                                   *)
(***************************************************************************)
\* Stroke lists plan_path is given: none, an empty stroke, the line of U+4E00,
\* and an empty stroke among a slanted stroke and a stroke of one vertex.
StrokeInputs ==
  {<<>>,
   <<<<>>>>,
   Strokes("U+4E00"),
   <<<<>>, <<V(0, 0), V(7, 24)>>, <<V(10, 0)>>>>}

\* 1.0 and 0.1
Scales == {FOfInt(1), FDiv(FOfInt(1), FOfInt(10))}

Offsets == {<<DefaultOffsetX, DefaultOffsetY>>, <<FOfInt(0), FOfInt(0)>>}

\* The characters asked for: the three implemented and U+6C34, which is not.
Characters == Implemented \cup {"U+6C34"}

\* 5.0, the step write_character asks for, 10.0 and 20.0
StepSizes == {FOfInt(5), FOfInt(10), FOfInt(20)}

\* Paths handed to interpolate_path as they are: the empty path, one point,
\* a long move with the pen up, and one long segment with the pen down.
Paths ==
  {<<>>,
   <<PathPoint(FOfInt(0), FOfInt(200), TRUE)>>,
   <<PathPoint(FOfInt(0), FOfInt(200), FALSE),
     PathPoint(FOfInt(100), FOfInt(200), TRUE)>>,
   <<PathPoint(FOfInt(0), FOfInt(0), TRUE),
     PathPoint(FOfInt(14), FOfInt(48), TRUE)>>}

\* No call has been made on the planner or the solver yet.
Fresh == call.fn = "__init__"

PlanPath ==
  /\ Fresh
  /\ \E strokes \in StrokeInputs, scale \in Scales, offset \in Offsets :
       LET path == plan_path(strokes, scale, offset[1], offset[2])
       IN /\ current_path' = path
          /\ call' = [fn |-> "plan_path", strokes |-> strokes, scale |-> scale,
                      offset_x |-> offset[1], offset_y |-> offset[2],
                      out |-> RList(path)]
  /\ UNCHANGED <<robot, solver>>

CreateSimpleCharacter ==
  /\ Fresh
  /\ \E character \in Characters :
       LET path == create_simple_character(character)
       IN /\ current_path' =
               (IF character \in Implemented THEN path ELSE current_path)
          /\ call' = [fn |-> "create_simple_character",
                      character |-> character, out |-> RList(path)]
  /\ UNCHANGED <<robot, solver>>

\* What interpolate_path is called on next: a path as it is, the path just
\* planned, or the path the pass before returned.  `after` is the step size
\* of that pass.
InterpolateArgs ==
  IF Fresh THEN {[path |-> p, after |-> None, pass |-> 1] : p \in Paths}
  ELSE IF call.fn \in {"plan_path", "create_simple_character"}
  THEN {[path |-> call.out.v, after |-> None, pass |-> 1]}
  ELSE IF call.fn = "interpolate_path" /\ call.out.t = "list"
          /\ call.pass < MaxPasses
  THEN {[path |-> call.out.v, after |-> Some(call.step_size),
         pass |-> call.pass + 1]}
  ELSE {}

InterpolatePath ==
  /\ \E arg \in InterpolateArgs, step_size \in StepSizes :
       call' = [fn |-> "interpolate_path", path |-> arg.path,
                step_size |-> step_size, after |-> arg.after,
                pass |-> arg.pass,
                out |-> interpolate_path(arg.path, step_size)]
  /\ UNCHANGED <<robot, current_path, solver>>

\* write_character up to the path it will execute: no path, no interpolation.
WriteCharacter ==
  /\ Fresh
  /\ \E character \in Characters :
       LET path == create_simple_character(character)
       IN /\ current_path' =
               (IF character \in Implemented THEN path ELSE current_path)
          /\ call' = [fn |-> "write_character", character |-> character,
                      out |-> IF path = <<>> THEN RNone
                              ELSE interpolate_path(path, FOfInt(5))]
  /\ UNCHANGED <<robot, solver>>

NextPlanner ==
  \/ PlanPath
  \/ CreateSimpleCharacter
  \/ InterpolatePath
  \/ WriteCharacter

SpecPlanner == Init /\ [][NextPlanner]_vars

\* Link lengths the solver is built with, and targets in mm on and around
\* the edges of the workspace and of the reach.
LinkLengths == {<<FOfInt(200), FOfInt(200)>>, <<FOfInt(200), FOfInt(100)>>}
Xs == {-301, -300, -100, 0, 240, 300, 301, 400}
Ys == {0, 49, 50, 100, 320, 400, 401}

NewSolver ==
  /\ Fresh
  /\ \E links \in LinkLengths :
       /\ solver' = [l1 |-> links[1], l2 |-> links[2]]
       /\ call' = [fn |-> "InverseKinematics"]
  /\ UNCHANGED <<robot, current_path>>

Solve ==
  /\ call.fn \in {"__init__", "InverseKinematics"}
  /\ \E x \in Xs, y \in Ys :
       call' = [fn |-> "solve", x |-> x, y |-> y,
                out |-> solve(solver, FOfInt(x), FOfInt(y))]
  /\ UNCHANGED <<robot, current_path, solver>>

IsReachable ==
  /\ call.fn \in {"__init__", "InverseKinematics"}
  /\ \E x \in Xs, y \in Ys :
       call' = [fn |-> "is_reachable", x |-> x, y |-> y,
                out |-> RBool(is_reachable(solver, FOfInt(x), FOfInt(y)))]
  /\ UNCHANGED <<robot, current_path, solver>>

NextKinematics ==
  \/ NewSolver
  \/ Solve
  \/ IsReachable

SpecKinematics == Init /\ [][NextKinematics]_vars

(***************************************************************************)
(* Properties of RobotController.  Each is about the call named by op: its *)
(* state before (pre), its transport calls (io) and its outcome (result).  *)
(***************************************************************************)
IsTrue(r) == r.t = "bool" /\ r.b
IsFalse(r) == r.t = "bool" /\ ~r.b
Returned == pc = "idle" /\ result.t # "pending"

IsWrite(e) == e.k = "write"
WriteIdx(log) == {i \in 1..Len(log) : IsWrite(log[i])}
WritesOf(log, command) ==
  {i \in 1..Len(log) : log[i] = Ev("write", Frame(command))}
IsMoveWrite(e) == IsWrite(e) /\ Find(e.v, "MOVE:") = 1

\* Event i is a read that the timeout ended with nothing received.
TimedOutAt(log, i) == i <= Len(log) /\ log[i] = Ev("read", "")
\* Event i is a read of a line with OK in it.
OkAt(log, i) == i <= Len(log) /\ log[i].k = "read" /\ Contains(log[i].v, "OK")

\* The STATUS polls of log whose response was read, by the place of the read.
PollReads(log) ==
  {i \in 2..Len(log) :
     log[i - 1] = Ev("write", Frame("STATUS")) /\ log[i].k = "read"}

\* The line read is a status report in which the device is not moving: the
\* line parses as a status and no `moving` flag in it is set.
ReportsNotMoving(line) ==
  LET st == ParseStatus(Some(Strip(line)))
  IN st.t = "dict" /\ ("moving" \notin DOMAIN st.d \/ ~st.d["moving"])

FlagsKept == is_connected = pre.c /\ is_homed = pre.h

\* C1: move_to called while is_homed is false returns failure, makes no
\* transport call at all (no write, no read), and leaves is_connected and
\* is_homed as they were.
C1_MoveBeforeHomeRefused ==
  (op = "move_to" /\ ~pre.h) =>
    /\ Returned
    /\ IsFalse(result)
    /\ io = <<>>
    /\ FlagsKept

\* A move_to refused on a connected controller that was never homed.
C1_Witness == op = "move_to" /\ ~pre.h /\ pre.c /\ IsFalse(result)

\* C2: after disconnect(), from any state, the controller is Disconnected:
\* the transport is closed, is_connected is false and is_homed is false.
C2_DisconnectLeavesDisconnected ==
  op = "disconnect" =>
    /\ serial # "open"
    /\ ~is_connected
    /\ ~is_homed

\* C3: an acknowledged move_to polls STATUS one exchange at a time, returns
\* success only right after the first poll whose response reports the device
\* not moving, and writes nothing after that poll.
C3_MoveReturnsAtFirstIdlePoll ==
  (op = "move_to" /\ pre.h /\ OkAt(io, 2)) =>
    /\ IsMoveWrite(io[1])
    /\ \A i \in WriteIdx(io) : i > 1 =>
         /\ io[i] = Ev("write", Frame("STATUS"))
         /\ io[i - 1].k \in {"read", "raise"}
    /\ \A i \in PollReads(io) : ReportsNotMoving(io[i].v) => i = Len(io)
    /\ IsTrue(result) <=>
         (Len(io) \in PollReads(io) /\ ReportsNotMoving(io[Len(io)].v))
    /\ IsTrue(result) => pc = "idle"
    /\ ~IsFalse(result)

\* A move_to that returned success at its second poll, the first having
\* reported the device still moving.
C3_Witness ==
  /\ op = "move_to" /\ IsTrue(result)
  /\ NumPolls(io) = 2
  /\ io[4] = Ev("read", "STATUS:moving:1,homed:1\n")

\* C4: home() sets is_homed only when the one response to its HOME frame
\* contains OK; otherwise (not connected, no response, an error, a response
\* without OK) it returns failure and is_connected and is_homed keep their
\* values.  It writes at most one frame and reads at most one line.
C4_HomeOnlyOnOk ==
  op = "home" =>
    /\ Returned
    /\ Cardinality(WriteIdx(io)) <= 1 /\ Len(io) <= 2
    /\ \A i \in WriteIdx(io) : io[i] = Ev("write", Frame("HOME"))
    /\ is_connected = pre.c
    /\ (is_homed /\ ~pre.h) => OkAt(io, 2)
    /\ IsTrue(result) => (OkAt(io, 2) /\ is_homed)
    /\ ~OkAt(io, 2) => (IsFalse(result) /\ FlagsKept)

\* A home() on a connected, unhomed controller answered by a line without OK.
C4_Witness ==
  /\ op = "home" /\ pre.c /\ ~pre.h
  /\ Len(io) = 2 /\ io[2] = Ev("read", "ERROR\n")
  /\ IsFalse(result) /\ ~is_homed

\* C5: when the response to the MOVE frame is absent or has no OK in it,
\* move_to returns failure, writes no STATUS poll, and leaves is_connected
\* and is_homed as they were.
C5_MoveNotAcknowledged ==
  (op = "move_to" /\ pre.h /\ ~OkAt(io, 2)) =>
    /\ Returned
    /\ IsFalse(result)
    /\ NumPolls(io) = 0
    /\ Cardinality(WriteIdx(io)) <= 1
    /\ FlagsKept

\* A MOVE frame answered by a line without OK.
C5_Witness ==
  /\ op = "move_to" /\ pre.h /\ pre.c /\ IsFalse(result)
  /\ IsMoveWrite(io[1]) /\ io[2] = Ev("read", "ERROR\n")

\* C6: get_status() and get_position() never raise: they return None for a
\* missing or malformed response, get_status() otherwise the map of the
\* flags and get_position() three coordinates.
C6_QueriesNeverRaise ==
  /\ op = "get_status" => result.t \in {"None", "dict"}
  /\ op = "get_position" =>
       \/ result.t = "None"
       \/ result.t = "tuple" /\ Len(result.c) = 3

\* C7 as stated: emergency_stop() writes a STOP frame in every state of the
\* controller, Disconnected included, and polls nothing.
C7_StopFromAnyState ==
  op = "emergency_stop" =>
    /\ io # <<>> /\ io[1] = Ev("write", Frame("STOP"))
    /\ NumPolls(io) = 0

\* C7 (amended): emergency_stop() writes one STOP frame whenever is_connected
\* is true (Connected or Homed) and nothing when it is false; either way it
\* returns None after at most that one exchange, without polling STATUS and
\* whatever was or was not received.
C7_StopWheneverConnected ==
  op = "emergency_stop" =>
    /\ Returned /\ result.t = "None"
    /\ pre.c => (io # <<>> /\ io[1] = Ev("write", Frame("STOP")))
    /\ ~pre.c => io = <<>>
    /\ Cardinality(WriteIdx(io)) <= 1 /\ Len(io) <= 2
    /\ NumPolls(io) = 0
    /\ FlagsKept

\* An emergency_stop on a connected but unhomed controller whose STOP frame
\* got no answer.
C7_Witness ==
  /\ op = "emergency_stop" /\ pre.c /\ ~pre.h
  /\ io = <<Ev("write", Frame("STOP")), Ev("read", "")>>

\* Within one call, a frame is written again after its exchange timed out.
Resent(log) ==
  \E i \in WriteIdx(log) : \E j \in WriteIdx(log) :
    i < j /\ log[j] = log[i] /\ TimedOutAt(log, i + 1)

TimedOut(log) == \E i \in 1..Len(log) : TimedOutAt(log, i)

\* C8 as stated: no public operation writes a command again after its
\* exchange timed out, and a call in which an exchange timed out returns a
\* failure to its caller.
C8_NoSilentResend ==
  /\ ~Resent(io)
  /\ (Returned /\ TimedOut(io)) => Falsy(result)

\* C8 (amended): every operation other than move_to writes at most one frame
\* per call and, when the read of its exchange times out, returns a failure
\* value (False, None or ''); move_to does the same for its MOVE frame; the
\* one command written again after a timed-out exchange, without the caller
\* hearing of it, is the STATUS poll of move_to's wait loop.
C8_ResendOnlyInPollLoop ==
  /\ op # "move_to" =>
       /\ Cardinality(WriteIdx(io)) <= 1
       /\ TimedOut(io) => (Returned /\ Falsy(result))
  /\ op = "move_to" =>
       /\ \A i \in WriteIdx(io) : IsMoveWrite(io[i]) => i = 1
       /\ TimedOutAt(io, 2) => (Returned /\ IsFalse(result) /\ Len(io) = 2)
  /\ \A i \in WriteIdx(io) : \A j \in WriteIdx(io) :
       (i < j /\ io[j] = io[i] /\ TimedOutAt(io, i + 1)) =>
         (op = "move_to" /\ io[i] = Ev("write", Frame("STATUS")))

\* A home() whose HOME frame timed out, reported as False.
C8_Witness ==
  /\ op = "home" /\ pre.c
  /\ io = <<Ev("write", Frame("HOME")), Ev("read", "")>>
  /\ IsFalse(result)

\* C9: however the with-statement is left (end of the body, return after a
\* failed home or move, exception in the body), no port opened by the
\* controller is open afterwards and is_connected is false.
C9_ScopeReleasesTransport ==
  op = "__exit__" =>
    /\ scope \in ExitKinds
    /\ handles = 0
    /\ serial # "open"
    /\ ~is_connected

\* A with-statement left by an exception while the port was open.
C9_Witness ==
  /\ op = "__exit__" /\ scope = "exception"
  /\ pre.s = "open" /\ pre.c
  /\ io = <<Ev("close", Port)>>

\* C10: when opening the port fails, connect() returns failure after that
\* one attempt, writes no frame, and leaves is_connected, is_homed and
\* self.serial as they were: a Disconnected controller stays Disconnected.
\* Every connect() makes exactly one attempt to open the port.
C10_ConnectFailure ==
  op = "connect" =>
    /\ Returned
    /\ Len(io) = 1 /\ io[1].k \in {"open", "openfail"}
    /\ io[1].k = "openfail" =>
         /\ IsFalse(result)
         /\ FlagsKept
         /\ serial = pre.s
         /\ ~pre.c => (~is_connected /\ serial # "open")

\* A failed connect() on a Disconnected controller.
C10_Witness ==
  /\ op = "connect" /\ ~pre.c
  /\ io = <<Ev("openfail", Port)>>
  /\ IsFalse(result) /\ ~is_connected


(***************************************************************************)
(* Properties of CalligraphyPlanner and InverseKinematics.  Each is about   *)
(* the call recorded in `call`: its arguments and what it returned (out).   *)
(***************************************************************************)
\* T of plan_path's contract, one coordinate at a time: c * scale + offset.
T(c, scale, offset) == FAdd(FMul(c, scale), offset)

\* The number of points the strokes before the k-th account for: len + 2 for
\* every stroke that is not empty.
RECURSIVE PointsBefore(_, _)
PointsBefore(strokes, k) ==
  IF k = 1 THEN 0
  ELSE PointsBefore(strokes, k - 1)
         + (IF Len(strokes[k - 1]) = 0 THEN 0 ELSE Len(strokes[k - 1]) + 2)

\* `out` is laid out stroke by stroke: pen-up at T(v1), pen-down at
\* T(v1)..T(vn), pen-up at T(vn), and nothing more.
StrokeLayout(strokes, scale, offset_x, offset_y, out) ==
  /\ Len(out) = PointsBefore(strokes, Len(strokes) + 1)
  /\ \A k \in 1..Len(strokes) :
       Len(strokes[k]) > 0 =>
         LET at == PointsBefore(strokes, k)
             n == Len(strokes[k])
             At(i, pen) == PathPoint(T(strokes[k][i][1], scale, offset_x),
                                     T(strokes[k][i][2], scale, offset_y), pen)
         IN /\ out[at + 1] = At(1, FALSE)
            /\ \A i \in 1..n : out[at + 1 + i] = At(i, TRUE)
            /\ out[at + n + 2] = At(n, FALSE)

\* C11: plan_path returns, in stroke order, for each non-empty stroke
\* v1..vn exactly n + 2 points (pen-up at T(v1), pen-down at T(v1)..T(vn),
\* pen-up at T(vn)) and nothing for an empty stroke, so that the output has
\* the sum of len(stroke) + 2 over the non-empty strokes points; the stroke
\* [(50,100),(150,100)] with scale 1 and offsets (0,200) gives up(50,300),
\* down(50,300), down(150,300), up(150,300).  create_simple_character
\* returns what plan_path does for its stroke table.
C11_PlanPathLayout ==
  /\ call.fn = "plan_path" =>
       /\ call.out.t = "list"
       /\ StrokeLayout(call.strokes, call.scale, call.offset_x, call.offset_y,
                       call.out.v)
       /\ current_path = call.out.v
       /\ ( /\ call.strokes = <<<<V(50, 100), V(150, 100)>>>>
            /\ call.scale = FOfInt(1)
            /\ call.offset_x = FOfInt(0) /\ call.offset_y = FOfInt(200) ) =>
            call.out.v = <<PathPoint(FOfInt(50), FOfInt(300), FALSE),
                           PathPoint(FOfInt(50), FOfInt(300), TRUE),
                           PathPoint(FOfInt(150), FOfInt(300), TRUE),
                           PathPoint(FOfInt(150), FOfInt(300), FALSE)>>
  /\ (call.fn = "create_simple_character" /\ call.character \in Implemented) =>
       StrokeLayout(Strokes(call.character), FOfInt(1), FOfInt(0), FOfInt(200),
                    call.out.v)

\* plan_path on an empty stroke followed by strokes of two vertices and one,
\* scaled by 0.1.
C11_Witness ==
  /\ call.fn = "plan_path"
  /\ call.scale # FOfInt(1)
  /\ \E k \in 1..Len(call.strokes) : Len(call.strokes[k]) = 0
  /\ \E k \in 1..Len(call.strokes) : Len(call.strokes[k]) = 2
  /\ Len(call.out.v) = 7


\* The square of the Euclidean distance from p to q, as a real number.
Dist2(p, q) ==
  LET dx == Sum(q.x, FNeg(p.x))
      dy == Sum(q.y, FNeg(p.y))
  IN Sum(Product(dx, dx), Product(dy, dy))

\* dist(p, q) <= d for a distance d >= 0, and dist(p, q) <= dist(r, s)
Within(p, q, d) == FCmp(Dist2(p, q), Product(d, d)) <= 0

NotFarther(p, q, r, s) == FCmp(Dist2(p, q), Dist2(r, s)) <= 0

\* Where the first i points of `path` are found in `out`, each at the first
\* place after the one before it; Len(out) + 1 for a point that is not found.
RECURSIVE Positions(_, _, _)
Positions(path, out, i) ==
  IF i = 0 THEN <<>>
  ELSE LET before == Positions(path, out, i - 1)
           from == IF i = 1 THEN 0 ELSE before[i - 1]
       IN Append(before,
                 Min({k \in (from + 1)..Len(out) : out[k] = path[i]}
                       \cup {Len(out) + 1}))

\* `out` holds the points of `path` in order, from its first point to its
\* last.
Embedded(path, out) ==
  \/ path = <<>> /\ out = <<>>
  \/ /\ path # <<>>
     /\ out # <<>>
     /\ Positions(path, out, Len(path))[1] = 1
     /\ Positions(path, out, Len(path))[Len(path)] = Len(out)

\* No pair of consecutive points of `out` is farther apart than the pair of
\* `path` it lies between.
NoWider(path, out) ==
  LET pos == Positions(path, out, Len(path))
  IN \A i \in 1..(Len(path) - 1) :
       \A k \in pos[i]..(pos[i + 1] - 1) :
         k + 1 <= Len(out) =>
           NotFarther(out[k], out[k + 1], path[i], path[i + 1])

\* The consecutive pen-down pairs of `out`, by the index of their first point.
PenDownPairs(out) ==
  {k \in 1..(Len(out) - 1) : out[k].pen_down /\ out[k + 1].pen_down}

\* C12 as stated: in the output of interpolate_path(path, step_size) every
\* pair of consecutive pen-down points is at Euclidean distance <= step_size,
\* and no consecutive output pair is farther apart than the input pair it
\* came from.
C12_SpacingWithinStep ==
  (call.fn = "interpolate_path" /\ call.out.t = "list") =>
    /\ \A k \in PenDownPairs(call.out.v) :
         Within(call.out.v[k], call.out.v[k + 1], call.step_size)
    /\ Embedded(call.path, call.out.v)
    /\ NoWider(call.path, call.out.v)

\* The largest absolute value of a coordinate of `path`, 0.0 for no point.
Coordinates(path) ==
  {FAbs(path[i].x) : i \in 1..Len(path)} \cup {FAbs(path[i].y) : i \in 1..Len(path)}

Largest(path) ==
  IF path = <<>> THEN FZero
  ELSE CHOOSE c \in Coordinates(path) :
         \A d \in Coordinates(path) : FCmp(d, c) <= 0

\* The rounding slack of a path: 2^-46 times its largest coordinate.
Slack(path) == Product(Largest(path), Dyadic(0, <<1>>, -46))

\* C12, amended: every pair of consecutive pen-down points of the output is at
\* Euclidean distance <= step_size + 2^-46 * M, where M is the largest
\* absolute coordinate of the input path (the inserted coordinates are
\* rounded, so equal spacings of step_size come out a few units in the last
\* place apart), and no consecutive output pair is farther apart than the
\* input pair it came from.
C12_SpacingWithinStepAndSlack ==
  (call.fn = "interpolate_path" /\ call.out.t = "list") =>
    /\ \A k \in PenDownPairs(call.out.v) :
         Within(call.out.v[k], call.out.v[k + 1],
                Sum(call.step_size, Slack(call.path)))
    /\ Embedded(call.path, call.out.v)
    /\ NoWider(call.path, call.out.v)

\* Points were inserted into a pen-down segment, and two of the output's
\* consecutive pen-down points are farther apart than step_size, by less
\* than the slack.
C12_Witness ==
  /\ call.fn = "interpolate_path"
  /\ call.out.t = "list"
  /\ Len(call.out.v) > Len(call.path)
  /\ \E k \in PenDownPairs(call.out.v) :
       /\ ~Within(call.out.v[k], call.out.v[k + 1], call.step_size)
       /\ Within(call.out.v[k], call.out.v[k + 1],
                 Sum(call.step_size, Slack(call.path)))


\* C13: interpolate_path is idempotent under re-application: for step sizes
\* 0 < s <= s', interpolate_path(interpolate_path(path, s), s') is equal
\* point for point (x, y, pen_down) to interpolate_path(path, s).  Here the
\* call is the second one: its path is what the pass with step size `after`
\* returned.
C13_Idempotent ==
  ( /\ call.fn = "interpolate_path"
    /\ call.after # None
    /\ FCmp(call.after[1], call.step_size) <= 0 ) =>
    /\ call.out.t = "list"
    /\ call.out.v = call.path


\* How many points interpolate_path is to insert between p and q: for a
\* pen-down pair farther apart than step_size, ceil(distance / step_size) - 1
\* with the distance and the quotient as the floats the code has; else none.
Inserted(p, q, step_size) ==
  LET distance == Distance(FSub(q.x, p.x), FSub(q.y, p.y))
  IN IF p.pen_down /\ q.pen_down /\ FCmp(distance, step_size) > 0
     THEN FCeilInt(FDiv(distance, step_size)) - 1
     ELSE 0

\* Between every two adjacent points of `path`, `out` has exactly the points
\* to insert, all of them pen-down.
InsertedOnly(path, out, step_size) ==
  LET pos == Positions(path, out, Len(path))
  IN \A i \in 1..(Len(path) - 1) :
       /\ pos[i + 1] - pos[i] - 1 = Inserted(path[i], path[i + 1], step_size)
       /\ \A k \in (pos[i] + 1)..(pos[i + 1] - 1) : out[k].pen_down

\* What C14 says of an output `out` for the input `path`.
Preserving(path, out, step_size) ==
  /\ Len(out) >= Len(path)
  /\ Embedded(path, out)
  /\ path # <<>> => out[Len(out)] = path[Len(path)]
  /\ InsertedOnly(path, out, step_size)

\* C14: for every input path, the empty path and paths of one point
\* included, interpolate_path returns a sequence at least as long as the
\* input, that holds the input points as an order-preserving subsequence and
\* ends with the input's final point; it inserts points only between adjacent
\* pen-down pairs farther apart than step_size, exactly
\* ceil(distance / step_size) - 1 per such pair, all pen-down.
C14_PreservesInput ==
  call.fn = "interpolate_path" =>
    /\ call.out.t = "list"
    /\ Preserving(call.path, call.out.v, call.step_size)

\* C14 for the paths that have a point: the part of the claim the code keeps.
C14_PreservesNonEmptyInput ==
  (call.fn = "interpolate_path" /\ call.path # <<>>) =>
    /\ call.out.t = "list"
    /\ Preserving(call.path, call.out.v, call.step_size)


\* The target (x, y), in whole mm, lies in the workspace rectangle
\* [min_x, max_x] x [min_y, max_y].
InRectangle(x, y) == -300 <= x /\ x <= 300 /\ 50 <= y /\ y <= 400

\* |l1 - l2| <= distance(x, y) <= l1 + l2 for the links of solver k, decided
\* on the squares, which are whole numbers.
InAnnulus(k, x, y) ==
  LET d2 == FOfInt(x * x + y * y)
      lo == Sum(k.l1, FNeg(k.l2))
      hi == Sum(k.l1, k.l2)
  IN FCmp(Product(lo, lo), d2) <= 0 /\ FCmp(d2, Product(hi, hi)) <= 0

\* C15: solve(x, y) returns joint angles only if x is in [min_x, max_x], y is
\* in [min_y, max_y] and |l1 - l2| <= distance(x, y) <= l1 + l2; for every
\* target outside the annulus or outside the rectangle solve returns None
\* and is_reachable returns False; neither raises.
C15_SolveAgreesWithIsReachable ==
  /\ call.fn = "solve" =>
       /\ call.out.t \in {"None", "tuple"}
       /\ call.out.t = "tuple" =>
            InRectangle(call.x, call.y) /\ InAnnulus(solver, call.x, call.y)
       /\ ~(InRectangle(call.x, call.y) /\ InAnnulus(solver, call.x, call.y)) =>
            call.out = RNone
  /\ call.fn = "is_reachable" =>
       /\ call.out.t = "bool"
       /\ ~(InRectangle(call.x, call.y) /\ InAnnulus(solver, call.x, call.y)) =>
            call.out = RBool(FALSE)

\* solve is asked for a target within the reach of the links and outside the
\* rectangle on a solver built with links of 200 and 100 mm, and returns None.
C15_Witness ==
  /\ call.fn = "solve"
  /\ solver.l1 # solver.l2
  /\ InAnnulus(solver, call.x, call.y)
  /\ ~InRectangle(call.x, call.y)
  /\ call.out = RNone


(***************************************************************************)
(* move_to's loop without a bound on its turns, for what is to happen in   *)
(* the end.  The log of transport calls stops growing at MaxPolls STATUS   *)
(* frames: the turns after that are taken and not written down.            *)
(***************************************************************************)
\* What send_command can return: None, or a line of the device, stripped.
Responses ==
  {None} \cup {Some(Strip(r)) :
                 r \in StatusReplies \cup AckReplies \cup PosReplies \cup {""}}

\* get_status's parse of each of them, worked out once.
Statuses == [r \in Responses |-> ParseStatus(r)] @@ <<>>

PollLive ==
  /\ pc = "polling"
  /\ \E x \in SendCommand("STATUS") :
       /\ rx' = x.rx
       /\ io' = (IF NumPolls(io) < MaxPolls THEN io \o x.ev ELSE io)
       /\ IF Statuses[x.resp].t = "raise"
          THEN pc' = "idle" /\ result' = Statuses[x.resp]
          ELSE IF NotMoving(Statuses[x.resp])
          THEN pc' = "idle" /\ result' = RBool(TRUE)
          ELSE pc' = "polling" /\ result' = RPending
  /\ UNCHANGED <<serial, handles, is_connected, is_homed, op, pre, scope>>

\* A turn of the loop, and the turn in which get_status returns a status that
\* is not moving: the loop breaks and move_to returns True.
Turn == PollLive /\ Wire /\ UNCHANGED calc

IdleTurn == Turn /\ result' = RBool(TRUE)

NextLive ==
  \/ Connect /\ Wire /\ UNCHANGED calc
  \/ Home /\ Wire /\ UNCHANGED calc
  \/ MoveTo /\ Wire /\ UNCHANGED calc
  \/ Turn

\* The calling thread keeps running (a loop that can take a turn takes one),
\* and the device answers a poll with a well-formed status that is not moving
\* again and again for as long as it is polled.
SpecLive == Init /\ [][NextLive]_vars /\ WF_vars(Turn) /\ SF_vars(IdleTurn)

\* C16: the poll loop of an acknowledged move_to has no cap on its turns and
\* is left only by a poll that yields a parsed status that is not moving; if
\* the device goes on to answer a poll with a well-formed not-moving status,
\* a move_to that is polling returns True in the end.
C16_MoveReturnsInTheEnd ==
  (pc = "polling") ~> (pc = "idle" /\ op = "move_to" /\ result = RBool(TRUE))

\* What the code keeps of C16: under the same assumption the loop is left in
\* the end, by a return or by the ValueError of get_status.
C16_LoopIsLeftInTheEnd == (pc = "polling") ~> (pc = "idle")


(***************************************************************************)
(* Properties of RobotController over sequences of calls.                  *)
(***************************************************************************)
\* C17: over any sequence of calls a MOVE frame is written to the transport
\* only if a HOME command was acknowledged OK on the connection now open,
\* that is after the most recent successful connect(); a controller that was
\* homed, disconnected and reconnected sends no MOVE until home() succeeds
\* again.
C17_MoveOnlyAfterHomeOnConnection ==
  \A i \in 1..Len(io) : IsMoveWrite(io[i]) => acked_home

\* C18: with a device that answers each command with one line, possibly
\* later than the read timeout, the line send_command returns for a command
\* is the device's response to that same command, never a late response to
\* an earlier command whose read timed out.
\* Here: once a call has ended in a timed-out read and the line it waited for
\* has come in after that, the line the next command gets is not a late one.
C18_ResponseBelongsToCommand ==
  [][( /\ pc = "idle"
       /\ io # <<>>
       /\ TimedOutAt(io, Len(io))
       /\ rx # <<>> ) => ~late_line']_vars

===========================================================================
